---------------------------- MODULE Spec2Model ----------------------------
(***************************************************************************)
(* A model of quick_xor_hash.cpp: the QuickXorHash digest of a byte        *)
(* stream.  Bytes are the integers 0..255, a block_t is a function from    *)
(* the byte indices 0..19 to bytes (index 0 is the lowest-order byte for   *)
(* rotate_block), the accumulator hash_data is a function on 0..159.       *)
(***************************************************************************)
EXTENDS Integers, Sequences, FiniteSets, TLC

(***************************************************************************)
(* Program constants.                                                      *)
(***************************************************************************)
BYTES_PER_BLOCK == 20

BLOCK_UNIT_SIZE == BYTES_PER_BLOCK * 8

NUM_BLOCKS == 8

SIZEOF_UINT64 == 8

SCATTER_STEP == 11

(***************************************************************************)
(* Bounds of the model.                                                    *)
(***************************************************************************)
\* Inputs hold 0..MaxChunks full 160-byte chunks followed by a tail.
MaxChunks == 2

\* Input contents are generated from the seeds 0..MaxSeed (seed 0: all zero).
MaxSeed == 2

(***************************************************************************)
(* uint8_t arithmetic.                                                     *)
(***************************************************************************)
Bytes == 0..255

Min(a, b) == IF a < b THEN a ELSE b

Pow2(k) == 2^k

Bit(b, k) == (b \div Pow2(k)) % 2

\* a ^ b on bytes, tabulated once
XorTable ==
  [a \in Bytes |-> [b \in Bytes |->
     ((Bit(a,0) + Bit(b,0)) % 2)       + ((Bit(a,1) + Bit(b,1)) % 2) * 2
   + ((Bit(a,2) + Bit(b,2)) % 2) * 4   + ((Bit(a,3) + Bit(b,3)) % 2) * 8
   + ((Bit(a,4) + Bit(b,4)) % 2) * 16  + ((Bit(a,5) + Bit(b,5)) % 2) * 32
   + ((Bit(a,6) + Bit(b,6)) % 2) * 64  + ((Bit(a,7) + Bit(b,7)) % 2) * 128]]

Xor8(a, b) == XorTable[a][b]

BitOr(x, y) == IF x + y > 0 THEN 1 ELSE 0

\* a | b on bytes
Or8(a, b) ==
    BitOr(Bit(a,0), Bit(b,0))       + BitOr(Bit(a,1), Bit(b,1)) * 2
  + BitOr(Bit(a,2), Bit(b,2)) * 4   + BitOr(Bit(a,3), Bit(b,3)) * 8
  + BitOr(Bit(a,4), Bit(b,4)) * 16  + BitOr(Bit(a,5), Bit(b,5)) * 32
  + BitOr(Bit(a,6), Bit(b,6)) * 64  + BitOr(Bit(a,7), Bit(b,7)) * 128

\* static_cast<uint8_t>(b << k) for a shift count k the language defines
Shl8(b, k) == IF k >= 8 THEN 0 ELSE (b * Pow2(k)) % 256

\* b >> k for a byte b and a shift count k the language defines
Shr8(b, k) == IF k >= 8 THEN 0 ELSE b \div Pow2(k)

(***************************************************************************)
(* block_t and the three block helpers.                                    *)
(***************************************************************************)
BlockIdx == 0..(BYTES_PER_BLOCK - 1)

ZeroBlock == [j \in BlockIdx |-> 0]

\* block[i] is promoted to a 32-bit int before it is shifted.  What a shift of
\* it by a count outside [0, 32) can yield: "zero" (every bit is shifted out)
\* or "mask" (the machine takes the count mod 32).
UBOutcomes == {"zero", "mask"}

\* block[i] >> (sizeof(uint8_t) * 8 - shift), narrowed to uint8_t.  The count
\* is a size_t: for shift > 8 it wraps to 2^64 - (shift - 8), an undefined
\* shift whose outcome is ub.
TempCarry(b, shift, ub) ==
  IF shift <= 8 THEN Shr8(b, 8 - shift)
  ELSE IF ub = "zero" THEN 0
  ELSE Shr8(b, (8 - shift) % 32) % 256

\* static_cast<uint8_t>(block[i] << shift): the low byte of the shifted int,
\* which is 0 for every shift in 8..31; the shift is undefined from 32 on.
Shifted(b, shift, ub) ==
  IF shift < 32 THEN Shl8(b, shift)
  ELSE IF ub = "zero" THEN 0
  ELSE Shl8(b, shift % 32)

\* block[i] after iteration i of the for loop: the byte shifted, or-ed with
\* the carry, which is temp_carry of iteration i - 1 (0 for i = 0), taken
\* from block[i - 1] before that iteration changed it
LoopByte(block, shift, ub, i) ==
  Or8(Shifted(block[i], shift, ub),
      IF i = 0 THEN 0 ELSE TempCarry(block[i - 1], shift, ub))

\* carry after the loop: temp_carry of the last iteration
LastCarry(block, shift, ub) == TempCarry(block[BYTES_PER_BLOCK - 1], shift, ub)

\* rotate_block without its last statement, "block[0] |= carry"
RotateDroppingWrap(block, shift, ub) ==
  [i \in BlockIdx |-> LoopByte(block, shift, ub, i)]

\* the for loop, then block[0] |= carry.  Iteration i reads block[i] before
\* it writes it and no later iteration reads it again, so every byte of the
\* result is a function of the bytes the block had at the call.
rotate_block(block, shift, ub) ==
  [i \in BlockIdx |->
     IF i = 0
     THEN Or8(LoopByte(block, shift, ub, 0), LastCarry(block, shift, ub))
     ELSE LoopByte(block, shift, ub, i)]

reverse_block(block) == [j \in BlockIdx |-> block[BYTES_PER_BLOCK - j - 1]]

xor(lhs, rhs) == [j \in BlockIdx |-> Xor8(lhs[j], rhs[j])]

(***************************************************************************)
(* quick_xor_hash: accumulation.                                           *)
(***************************************************************************)
UnitIdx == 0..(BLOCK_UNIT_SIZE - 1)

ZeroUnit == [i \in UnitIdx |-> 0]

\* input_data after a read of gcount bytes from offset pos of data and the
\* std::fill of its tail
InputData(data, pos, gcount) ==
  [i \in UnitIdx |-> IF i < gcount THEN data[pos + i] ELSE 0]

\* hash_data[i] ^= input_data[i] for every i
XorChunk(hash_data, input_data) ==
  [i \in UnitIdx |-> Xor8(hash_data[i], input_data[i])]

\* a loop that goes on until a read returns nothing
LoopUntilEmptyRead(gcount) == gcount # 0

\* loop after "if (input.gcount() != input_data.size()) { ...; loop = false; }"
LoopAfterRead(gcount) == gcount = BLOCK_UNIT_SIZE

\* a count of the bytes asked for instead of the bytes read
CountRequested(cnt, gcount) == cnt + BLOCK_UNIT_SIZE

\* count += input.gcount()   (uint64_t; the model's counts stay far below 2^64)
CountAfterRead(cnt, gcount) == cnt + gcount

RECURSIVE AccumulateLoop(_, _, _, _, _)
\* the while loop over a stream that fills every read until its n bytes of
\* data end: <<hash_data, count>> when the loop is left
AccumulateLoop(data, n, pos, cnt, hash_data) ==
  LET gcount == Min(BLOCK_UNIT_SIZE, n - pos)
      next   == XorChunk(hash_data, InputData(data, pos, gcount))
  IN IF LoopAfterRead(gcount)
     THEN AccumulateLoop(data, n, pos + gcount, CountAfterRead(cnt, gcount), next)
     ELSE <<next, CountAfterRead(cnt, gcount)>>

(***************************************************************************)
(* quick_xor_hash: the scatter of hash_data into the 8 blocks.             *)
(***************************************************************************)
BlocksIdx == 0..(NUM_BLOCKS - 1)

ZeroBlocks == [k \in BlocksIdx |-> ZeroBlock]

\* a scatter with the multiplier 10, which is not coprime to 160
ModIndexStep10(i) == (i * (SCATTER_STEP - 1)) % BLOCK_UNIT_SIZE

mod_index(i) == (i * SCATTER_STEP) % BLOCK_UNIT_SIZE

blocks_index(i) == mod_index(i) % 8

byte_index(i) == mod_index(i) \div 8

\* blocks[blocks_index][byte_index] = hash_data[i]
ScatterStep(blocks, hash_data, i) ==
  [blocks EXCEPT ![blocks_index(i)][byte_index(i)] = hash_data[i]]

\* the largest element of a finite nonempty set of numbers
SetMax(S) == CHOOSE x \in S : \A y \in S : y <= x

\* the indices i whose iteration writes blocks[k][j]
Writers(k, j) == {i \in UnitIdx : blocks_index(i) = k /\ byte_index(i) = j}

\* blocks after the whole for loop over i = 0..159: a slot holds what its
\* last writer stored, and the 0 of "blocks = {}" when nothing wrote it
Scatter(hash_data) ==
  [k \in BlocksIdx |-> [j \in BlockIdx |->
     IF Writers(k, j) = {} THEN 0 ELSE hash_data[SetMax(Writers(k, j))]]]

(***************************************************************************)
(* quick_xor_hash: rotate and combine.  block is a reference to blocks[0]. *)
(***************************************************************************)
\* every block rotated by one bit instead of by its index
RotatedByOne(blocks, k) == rotate_block(blocks[k], 1, "zero")

\* blocks[k] after rotate_block(blocks[k], k)  (k is 1..7: no undefined
\* shift, the outcome argument is not consulted)
Rotated(blocks, k) == rotate_block(blocks[k], k, "zero")

RECURSIVE XorRotated(_, _)
\* block (that is blocks[0]) after the iterations i = 1..k of the loop
XorRotated(blocks, k) ==
  IF k = 0 THEN blocks[0]
  ELSE xor(XorRotated(blocks, k - 1), Rotated(blocks, k))

\* blocks after the rotate-and-xor loop and reverse_block(block)
Combine(blocks) ==
  [k \in BlocksIdx |->
     IF k = 0 THEN reverse_block(XorRotated(blocks, NUM_BLOCKS - 1))
     ELSE Rotated(blocks, k)]

(***************************************************************************)
(* quick_xor_hash: the length fold.                                        *)
(***************************************************************************)
RECURSIVE CountByte(_, _)
\* static_cast<uint8_t>(count >> (i * 8))
CountByte(count, i) ==
  IF i = 0 THEN count % 256 ELSE CountByte(count \div 256, i - 1)

\* the count stored lowest byte first
LengthBlockLowFirst(count) ==
  [j \in BlockIdx |-> IF j < SIZEOF_UINT64 THEN CountByte(count, j) ELSE 0]

\* length_block[sizeof(uint64_t) - i - 1] = byte i of count, for i in 0..7
LengthBlock(count) ==
  [j \in BlockIdx |->
     IF j < SIZEOF_UINT64 THEN CountByte(count, SIZEOF_UINT64 - j - 1) ELSE 0]

\* the whole function over a stream that delivers data (n bytes) in full reads
QuickXorHash(data, n) ==
  LET acc    == AccumulateLoop(data, n, 0, 0, ZeroUnit)
      blocks == Combine(Scatter(acc[1]))
  IN xor(blocks[0], LengthBlock(acc[2]))

(***************************************************************************)
(* The reference formulation of the header comment.  A block is written    *)
(* high byte first (main prints index 19 first, index 0 last).             *)
(***************************************************************************)
zero == ZeroBlock

reverse(b) == [j \in BlockIdx |-> b[(BYTES_PER_BLOCK - 1) - j]]

extend8(b) == [j \in BlockIdx |-> IF j = 0 THEN b ELSE 0]

\* bit p (0 = lowest) of the 160-bit value of a block
BlockBit(bl, p) == Bit(bl[p \div 8], p % 8)

BLOCK_BITS == BYTES_PER_BLOCK * 8

\* bl rotated left by n bits as one 160-bit value: bit p moves to (p+n) mod 160
rotate(bl, n) ==
  [j \in BlockIdx |->
      BlockBit(bl, (8*j     + BLOCK_BITS - (n % BLOCK_BITS)) % BLOCK_BITS)
    + BlockBit(bl, (8*j + 1 + BLOCK_BITS - (n % BLOCK_BITS)) % BLOCK_BITS) * 2
    + BlockBit(bl, (8*j + 2 + BLOCK_BITS - (n % BLOCK_BITS)) % BLOCK_BITS) * 4
    + BlockBit(bl, (8*j + 3 + BLOCK_BITS - (n % BLOCK_BITS)) % BLOCK_BITS) * 8
    + BlockBit(bl, (8*j + 4 + BLOCK_BITS - (n % BLOCK_BITS)) % BLOCK_BITS) * 16
    + BlockBit(bl, (8*j + 5 + BLOCK_BITS - (n % BLOCK_BITS)) % BLOCK_BITS) * 32
    + BlockBit(bl, (8*j + 6 + BLOCK_BITS - (n % BLOCK_BITS)) % BLOCK_BITS) * 64
    + BlockBit(bl, (8*j + 7 + BLOCK_BITS - (n % BLOCK_BITS)) % BLOCK_BITS) * 128]

\* "all zero bits except for the lower 64 bits which come from i and are in
\* little-endian byte order": of the block written high byte first, the last 8
\* bytes are i's bytes, least significant first.  Written position s is byte
\* index 19 - s, so i's least significant byte is at index 7.
extend64(i) ==
  LET written == [s \in BlockIdx |->
                    IF s < BYTES_PER_BLOCK - 8 THEN 0
                    ELSE CountByte(i, s - (BYTES_PER_BLOCK - 8))]
  IN [j \in BlockIdx |-> written[(BYTES_PER_BLOCK - 1) - j]]

XorRef(bl1, bl2) == [j \in BlockIdx |-> Xor8(bl1[j], bl2[j])]

RECURSIVE XorHash0Loop(_, _, _)
\* the xor of rotate(extend8(rgb[i]), i * 11) over i = lo .. hi-1 (xor is
\* associative and commutative: the loop is evaluated by halves)
XorHash0Loop(rgb, lo, hi) ==
  IF hi <= lo THEN zero
  ELSE IF hi = lo + 1 THEN rotate(extend8(rgb[lo]), lo * SCATTER_STEP)
  ELSE LET mid == (lo + hi) \div 2
       IN XorRef(XorHash0Loop(rgb, lo, mid), XorHash0Loop(rgb, mid, hi))

XorHash0(rgb, n) == reverse(XorHash0Loop(rgb, 0, n))

XorHash(rgb, n) == XorRef(extend64(n), XorHash0(rgb, n))

(***************************************************************************)
(* Inputs.                                                                 *)
(***************************************************************************)
\* byte i of the input generated from seed
GenByte(seed, i) == (seed * (31 * i + 17)) % 256

GenData(seed, n) == [i \in 0..(n - 1) |-> GenByte(seed, i)]

Seeds == 0..MaxSeed

\* input lengths: empty, below 160, exactly 160, above, multiples of 160
Tails == {0, 1, 96, 97, 159}

Lengths == {c * BLOCK_UNIT_SIZE + t : c \in 0..MaxChunks, t \in Tails}

\* offsets at which the device under the stream may fail (-1: never)
FaultOffsets(n) == {-1} \cup {f \in {0, 100, BLOCK_UNIT_SIZE} : f < n}

\* the most bytes one read call of a stream returns: 160 for std::istream,
\* which fills the request until the data ends
ReadLimits == {1, 64, BLOCK_UNIT_SIZE - 1, BLOCK_UNIT_SIZE}

ArgCounts == {1, 2, 3}

(***************************************************************************)
(* State.                                                                  *)
(***************************************************************************)
VARIABLES
  pc,            \* the place the program (or the function under study) is at
  argc,          \* main's argument count
  input,         \* the std::istream of quick_xor_hash and the file under it
  loop,          \* quick_xor_hash's locals
  count,
  hash_data,
  blocks,        \* block is a reference to blocks[0]
  length_block,
  reads,         \* history: the gcount() of every read so far
  exit_code,     \* main's return value, -1 while running
  cout,          \* the bytes main printed, in print order
  i,             \* the scatter loop's index when the loop is stepped
  dst,           \* history: the slot <<blocks_index, byte_index>> last written
  writes,        \* history: how often each slot of blocks was written
  arg,           \* arguments of a function run on its own
  result         \* its results

vars == <<pc, argc, input, loop, count, hash_data, blocks, length_block,
          reads, exit_code, cout, i, dst, writes, arg, result>>

mainVars == <<argc, input, loop, count, hash_data, blocks, length_block,
              reads, exit_code, cout>>

scatterVars == <<i, dst, writes>>

callVars == <<arg, result>>

\* nothing yet: nothing printed, no slot written, no result
None == <<>>

NoStream == [data |-> <<>>, n |-> 0, pos |-> 0, is_open |-> FALSE,
             state |-> "good", limit |-> BLOCK_UNIT_SIZE, faultAt |-> -1]

ZeroWrites == [k \in BlocksIdx |-> [j \in BlockIdx |-> 0]]

MainIdle ==
  /\ argc = 0 /\ input = NoStream /\ loop = FALSE /\ count = 0
  /\ hash_data = ZeroUnit /\ blocks = ZeroBlocks /\ length_block = ZeroBlock
  /\ reads = <<>> /\ exit_code = -1 /\ cout = None

ScatterIdle == i = 0 /\ dst = None /\ writes = ZeroWrites

CallIdle == arg = None /\ result = None

(***************************************************************************)
(* The stream.                                                             *)
(***************************************************************************)
\* a file of n bytes; exists: whether std::ifstream can open it
File(seed, n, exists, limit, faultAt) ==
  [data |-> GenData(seed, n), n |-> n, pos |-> 0, is_open |-> exists,
   state |-> "good", limit |-> limit, faultAt |-> faultAt]

\* the bytes the stream can still deliver before its data ends or its device
\* fails
Available(in) ==
  (IF in.faultAt >= 0 THEN in.faultAt ELSE in.n) - in.pos

\* input.gcount() after input.read(buf, 160): nothing from a stream that is
\* not good(), else what the stream delivers
Gcount(in) ==
  IF in.state # "good" THEN 0
  ELSE Min(Min(BLOCK_UNIT_SIZE, in.limit), Available(in))

\* the stream after that read: a read that comes short leaves it not good()
AfterRead(in) ==
  LET g == Gcount(in)
  IN [in EXCEPT !.pos = in.pos + g,
                !.state = IF in.state # "good" THEN in.state
                          ELSE IF g = BLOCK_UNIT_SIZE THEN "good"
                          ELSE IF in.faultAt >= 0 /\ in.pos + g = in.faultAt
                               THEN "bad"
                          ELSE IF in.pos + g = in.n THEN "eof"
                          ELSE "good"]

(***************************************************************************)
(* main and quick_xor_hash_file.                                           *)
(***************************************************************************)
\* main, argc != 2: the usage message, return 1
UsageError ==
  /\ pc = "main" /\ argc # 2
  /\ exit_code' = 1
  /\ pc' = "exited"
  /\ UNCHANGED <<argc, input, loop, count, hash_data, blocks, length_block,
                 reads, cout>>
  /\ UNCHANGED scatterVars /\ UNCHANGED callVars

\* main, argc = 2: the call of quick_xor_hash_file inside the try block
CallHashFile ==
  /\ pc = "main" /\ argc = 2
  /\ pc' = "quick_xor_hash_file"
  /\ UNCHANGED mainVars /\ UNCHANGED scatterVars /\ UNCHANGED callVars

\* std::ifstream input(filename, binary): no exception mask is set and
\* is_open() is not looked at; a file that cannot be opened leaves failbit set
OpenFile ==
  /\ pc = "quick_xor_hash_file"
  /\ input' = [input EXCEPT !.state = IF input.is_open THEN "good" ELSE "fail"]
  /\ pc' = "Start"
  /\ UNCHANGED <<argc, loop, count, hash_data, blocks, length_block, reads,
                 exit_code, cout>>
  /\ UNCHANGED scatterVars /\ UNCHANGED callVars

(***************************************************************************)
(* quick_xor_hash.                                                         *)
(***************************************************************************)
\* count = 0; hash_data = {}; loop = true
Start ==
  /\ pc = "Start"
  /\ count' = 0
  /\ hash_data' = ZeroUnit
  /\ loop' = TRUE
  /\ pc' = "Accumulating"
  /\ UNCHANGED <<argc, input, blocks, length_block, reads, exit_code, cout>>
  /\ UNCHANGED scatterVars /\ UNCHANGED callVars

\* one iteration of the while loop
ReadChunk ==
  /\ pc = "Accumulating" /\ loop
  /\ LET gcount == Gcount(input)
     IN /\ count' = CountAfterRead(count, gcount)
        /\ hash_data' = XorChunk(hash_data, InputData(input.data, input.pos, gcount))
        /\ loop' = LoopAfterRead(gcount)
        /\ reads' = Append(reads, gcount)
        /\ pc' = IF LoopAfterRead(gcount) THEN "Accumulating" ELSE "Scattering"
  /\ input' = AfterRead(input)
  /\ UNCHANGED <<argc, blocks, length_block, exit_code, cout>>
  /\ UNCHANGED scatterVars /\ UNCHANGED callVars

\* blocks = {}; the scatter loop
ScatterAll ==
  /\ pc = "Scattering"
  /\ blocks' = Scatter(hash_data)
  /\ pc' = "Combining"
  /\ UNCHANGED <<argc, input, loop, count, hash_data, length_block, reads,
                 exit_code, cout>>
  /\ UNCHANGED scatterVars /\ UNCHANGED callVars

\* the rotate-and-xor loop and reverse_block(block)
CombineAll ==
  /\ pc = "Combining"
  /\ blocks' = Combine(blocks)
  /\ pc' = "Folding"
  /\ UNCHANGED <<argc, input, loop, count, hash_data, length_block, reads,
                 exit_code, cout>>
  /\ UNCHANGED scatterVars /\ UNCHANGED callVars

\* length_block from count; xor(block, length_block); return block
Fold ==
  /\ pc = "Folding"
  /\ length_block' = LengthBlock(count)
  /\ blocks' = [blocks EXCEPT ![0] = xor(blocks[0], LengthBlock(count))]
  /\ pc' = "Done"
  /\ UNCHANGED <<argc, input, loop, count, hash_data, reads, exit_code, cout>>
  /\ UNCHANGED scatterVars /\ UNCHANGED callVars

\* main prints result from crbegin to crend (index 19 first), return 0
PrintDigest ==
  /\ pc = "Done"
  /\ cout' = [s \in 1..BYTES_PER_BLOCK |-> blocks[0][BYTES_PER_BLOCK - s]]
  /\ exit_code' = 0
  /\ pc' = "exited"
  /\ UNCHANGED <<argc, input, loop, count, hash_data, blocks, length_block,
                 reads>>
  /\ UNCHANGED scatterVars /\ UNCHANGED callVars

\* No statement of the try block throws (the stream's exception mask is
\* empty), so the catch clause with its "return 2" has no action.
Next ==
  \/ UsageError
  \/ CallHashFile
  \/ OpenFile
  \/ Start
  \/ ReadChunk
  \/ ScatterAll
  \/ CombineAll
  \/ Fold
  \/ PrintDigest

\* the program on a std::ifstream: every read is filled until the data ends,
\* the file may be missing, the device may fail
Init ==
  /\ pc = "main"
  /\ argc \in ArgCounts
  /\ input \in { File(seed, n, exists, BLOCK_UNIT_SIZE, f) :
                   seed \in Seeds, n \in Lengths, exists \in BOOLEAN,
                   f \in {-1, 0, 100, BLOCK_UNIT_SIZE} }
  /\ input.faultAt \in FaultOffsets(input.n)
  /\ input.is_open \/ (input.faultAt = -1 /\ input.n = 0)
  /\ loop = FALSE /\ count = 0
  /\ hash_data = ZeroUnit /\ blocks = ZeroBlocks /\ length_block = ZeroBlock
  /\ reads = <<>> /\ exit_code = -1 /\ cout = None
  /\ ScatterIdle /\ CallIdle

Spec == Init /\ [][Next]_vars

\* main runs to its return: no step waits on anything but the stream, which
\* answers every read
FairSpec == Init /\ [][Next]_vars /\ WF_vars(Next)

\* the same program over a stream whose read may return fewer bytes than
\* asked for before its data ends
InitSplit ==
  /\ pc = "main"
  /\ argc \in ArgCounts
  /\ input \in { File(seed, n, TRUE, limit, -1) :
                   seed \in Seeds, n \in Lengths, limit \in ReadLimits }
  /\ loop = FALSE /\ count = 0
  /\ hash_data = ZeroUnit /\ blocks = ZeroBlocks /\ length_block = ZeroBlock
  /\ reads = <<>> /\ exit_code = -1 /\ cout = None
  /\ ScatterIdle /\ CallIdle

SpecSplit == InitSplit /\ [][Next]_vars

(***************************************************************************)
(* The scatter loop, one iteration per step.                               *)
(***************************************************************************)
\* accumulators to scatter: one with 160 different bytes, and generated ones
Accumulators ==
  {[x \in UnitIdx |-> x]} \cup {[x \in UnitIdx |-> GenByte(seed, x)] : seed \in 1..(MaxSeed + 1)}

InitScatter ==
  /\ pc = "scatter_loop"
  /\ hash_data \in Accumulators
  /\ blocks = ZeroBlocks
  /\ i = 0 /\ dst = None /\ writes = ZeroWrites
  /\ argc = 0 /\ input = NoStream /\ loop = FALSE /\ count = 0
  /\ length_block = ZeroBlock /\ reads = <<>> /\ exit_code = -1 /\ cout = None
  /\ CallIdle

\* the body of "for (size_t i=0; i<BLOCK_UNIT_SIZE; i++)" and its i++
ScatterIter ==
  /\ pc = "scatter_loop" /\ i < BLOCK_UNIT_SIZE
  /\ blocks' = ScatterStep(blocks, hash_data, i)
  /\ dst' = <<blocks_index(i), byte_index(i)>>
  /\ writes' = [writes EXCEPT ![blocks_index(i)][byte_index(i)] = @ + 1]
  /\ i' = i + 1
  /\ UNCHANGED <<pc, argc, input, loop, count, hash_data, length_block, reads,
                 exit_code, cout>>
  /\ UNCHANGED callVars

\* the loop's exit at i = BLOCK_UNIT_SIZE
ScatterExit ==
  /\ pc = "scatter_loop" /\ i = BLOCK_UNIT_SIZE
  /\ pc' = "scatter_done"
  /\ UNCHANGED mainVars /\ UNCHANGED scatterVars /\ UNCHANGED callVars

NextScatter == ScatterIter \/ ScatterExit

SpecScatter == InitScatter /\ [][NextScatter]_vars

(***************************************************************************)
(* rotate_block on its own.                                                *)
(***************************************************************************)
\* one byte set in an otherwise zero block
OneByte(j, b) == [x \in BlockIdx |-> IF x = j THEN b ELSE 0]

RotateBlocks ==
  {OneByte(j, b) : j \in {0, 9, BYTES_PER_BLOCK - 1}, b \in {1, 128, 165, 255}}
    \cup {[x \in BlockIdx |-> GenByte(seed, x)] : seed \in 1..(MaxSeed + 1)}

\* the shifts of a rotation within the 160 bits
ShiftRange == 0..(BLOCK_BITS - 1)

InitRotate ==
  /\ pc = "call"
  /\ arg \in {[block |-> b, shift |-> n] : b \in RotateBlocks, n \in ShiftRange}
  /\ result = None
  /\ MainIdle /\ ScatterIdle

\* rotate_block(block, shift); an undefined shift takes one of its outcomes
RotateCall ==
  /\ pc = "call"
  /\ \E ub \in UBOutcomes : result' = rotate_block(arg.block, arg.shift, ub)
  /\ pc' = "returned"
  /\ UNCHANGED arg /\ UNCHANGED mainVars /\ UNCHANGED scatterVars

NextRotate == RotateCall

SpecRotate == InitRotate /\ [][NextRotate]_vars

(***************************************************************************)
(* quick_xor_hash on two related inputs.                                   *)
(***************************************************************************)
\* rgb followed by e bytes of value v
Extended(rgb, m, e, v) == [x \in 0..(m + e - 1) |-> IF x < m THEN rgb[x] ELSE v]

\* rgb with bit b of byte p flipped
Flipped(rgb, n, p, b) ==
  [x \in 0..(n - 1) |-> IF x = p THEN Xor8(rgb[x], Pow2(b)) ELSE rgb[x]]

\* at most MaxExtra bytes are cut off an input
MaxExtra == 2

ExtraBytes == {0, 1, 255}

\* A: an input; B: A cut to a proper prefix
PrefixPairs ==
  {[a |-> [data |-> Extended(GenData(seed, m), m, e, v), n |-> m + e],
    b |-> [data |-> GenData(seed, m), n |-> m]] :
      seed \in Seeds, m \in Lengths, e \in 1..MaxExtra, v \in ExtraBytes}

FlipLengths == {c * BLOCK_UNIT_SIZE + t : c \in 0..MaxChunks, t \in {1, 44}}

FlipBits == {0, 7}

FlipSeeds == {0, MaxSeed}

\* the first byte, the last, and every tenth in between
FlipPositions(n) == {p \in 0..(n - 1) : p = 0 \/ p = n - 1 \/ p % 10 = 3}

\* A: an input; B: A with one bit flipped
FlipPairs ==
  UNION {{[a |-> [data |-> GenData(seed, n), n |-> n],
           b |-> [data |-> Flipped(GenData(seed, n), n, p, b), n |-> n]] :
             p \in FlipPositions(n), b \in FlipBits} :
         seed \in FlipSeeds, n \in FlipLengths}

InitPrefix ==
  /\ pc = "call"
  /\ arg \in PrefixPairs
  /\ result = [a |-> None, b |-> None]
  /\ MainIdle /\ ScatterIdle

InitFlip ==
  /\ pc = "call"
  /\ arg \in FlipPairs
  /\ result = [a |-> None, b |-> None]
  /\ MainIdle /\ ScatterIdle

\* quick_xor_hash over a stream holding A
HashA ==
  /\ pc = "call"
  /\ result' = [result EXCEPT !.a = QuickXorHash(arg.a.data, arg.a.n)]
  /\ pc' = "call_b"
  /\ UNCHANGED arg /\ UNCHANGED mainVars /\ UNCHANGED scatterVars

\* quick_xor_hash over a stream holding B
HashB ==
  /\ pc = "call_b"
  /\ result' = [result EXCEPT !.b = QuickXorHash(arg.b.data, arg.b.n)]
  /\ pc' = "returned"
  /\ UNCHANGED arg /\ UNCHANGED mainVars /\ UNCHANGED scatterVars

NextPair == HashA \/ HashB

SpecPrefix == InitPrefix /\ [][NextPair]_vars

SpecFlip == InitFlip /\ [][NextPair]_vars

(***************************************************************************)
(* Properties.                                                             *)
(***************************************************************************)
\* the digest quick_xor_hash returns
Digest == blocks[0]

\* the stream was opened and its device never fails
CleanStream == input.is_open /\ input.faultAt = -1

\* the stream could not be opened, or a read failed other than by exhaustion
StreamFailed == input.state \in {"fail", "bad"}

Stages == <<"Start", "Accumulating", "Scattering", "Combining", "Folding", "Done">>

StageNo(p) == CHOOSE k \in 1..Len(Stages) : Stages[k] = p

InStage == pc \in {Stages[k] : k \in 1..Len(Stages)}

RECURSIVE SumSeq(_)
SumSeq(q) == IF q = <<>> THEN 0 ELSE q[1] + SumSeq(Tail(q))

Last(q) == q[Len(q)]

C2_FailureAbortsWithExit2 ==
  StreamFailed =>
    /\ pc \notin {"Scattering", "Combining", "Folding", "Done"}
    /\ cout = None
    /\ (pc = "exited" => exit_code = 2)

\* C3: on a stream that delivers all of rgb, the digest returned is XorHash(rgb)
\* of the header comment.
C3_DigestIsXorHash ==
  (pc = "Done" /\ CleanStream) => Digest = XorHash(input.data, input.n)

C3_Witness ==
  /\ pc = "Done" /\ CleanStream
  /\ input.n > 2 * BLOCK_UNIT_SIZE
  /\ input.data[0] # 0
  /\ Digest = XorHash(input.data, input.n)
  /\ Digest # extend64(input.n)

\* C7: the engine's stages follow in the order Start, Accumulating,
\* Scattering, Combining, Folding, Done, one at a time; Accumulating is left at
\* the first read returning fewer than 160 bytes and at no other; a clean
\* stream of a multiple of 160 bytes ends with one zero-length read; and a
\* clean run reaches Done.
C7_StageOrder ==
  /\ [][ /\ (InStage /\ pc' # pc /\ pc # "Done") =>
              (InStage' /\ StageNo(pc') = StageNo(pc) + 1)
         /\ (~InStage /\ InStage') => pc' = "Start"
         /\ (pc = "Done" /\ pc' # pc) => ~InStage'
         /\ pc = "Accumulating" =>
              /\ Len(reads') = Len(reads) + 1
              /\ (pc' = "Scattering" <=> Last(reads') < BLOCK_UNIT_SIZE)
              /\ (pc' = "Accumulating" <=> Last(reads') = BLOCK_UNIT_SIZE) ]_vars
  /\ [](InStage /\ CleanStream =>
          /\ \A k \in 1..(Len(reads) - 1) : reads[k] = BLOCK_UNIT_SIZE
          /\ (pc \notin {"Start", "Accumulating"} =>
                /\ Len(reads) = (input.n \div BLOCK_UNIT_SIZE) + 1
                /\ Last(reads) = input.n % BLOCK_UNIT_SIZE))
  /\ ((pc = "Start" /\ CleanStream) ~> (pc = "Done"))

C7_Witness ==
  /\ pc = "Done" /\ CleanStream
  /\ input.n = 2 * BLOCK_UNIT_SIZE
  /\ reads = <<BLOCK_UNIT_SIZE, BLOCK_UNIT_SIZE, 0>>

\* the count a length block holds in its bytes 0..7, byte 0 the most
\* significant (the model's counts fit the low four of them)
DecodeLength(lb) ==
  lb[4] * 16777216 + lb[5] * 65536 + lb[6] * 256 + lb[7]

\* C8: while accumulating and after, count is the sum of the lengths of the
\* chunks folded in (the bytes taken from the stream); once Accumulation has
\* ended count never changes; the length folded into the digest is that sum.
C8_CounterIsBytesConsumed ==
  /\ [](InStage /\ pc # "Start" => count = SumSeq(reads) /\ count = input.pos)
  /\ [][(pc \in {"Scattering", "Combining", "Folding", "Done"}) => (count' = count)]_vars
  /\ [](pc = "Done" =>
          /\ \A j \in 0..3 : length_block[j] = 0
          /\ DecodeLength(length_block) = SumSeq(reads))

C8_Witness ==
  /\ pc = "Done" /\ Len(reads) = 3 /\ Last(reads) = 97
  /\ count = 2 * BLOCK_UNIT_SIZE + 97

\* C10 as claimed: length_block holds count in its lowest 8 bytes with the
\* most significant byte at the highest index of the 8 (byte j holds bits
\* 8j..8j+7 of count), the other 12 bytes zero.
C10_MostSignificantAtHighestIndex ==
  pc = "Done" =>
    /\ \A j \in 0..(SIZEOF_UINT64 - 1) : length_block[j] = CountByte(count, j)
    /\ \A j \in SIZEOF_UINT64..(BYTES_PER_BLOCK - 1) : length_block[j] = 0

\* C10 amended: length_block holds count in bytes 0..7 with the most
\* significant byte at index 0 and the least significant at index 7, bytes
\* 8..19 zero; the fold leaves bytes 8..19 of the reversed combined block as
\* they are and xors bytes 0..7 with the count's bytes.
C10_LengthFoldLayoutAndFrame ==
  [][(pc = "Folding" /\ pc' = "Done") =>
       /\ \A j \in 0..3 : length_block'[j] = 0
       /\ DecodeLength(length_block') = count
       /\ \A j \in SIZEOF_UINT64..(BYTES_PER_BLOCK - 1) :
            length_block'[j] = 0 /\ blocks'[0][j] = blocks[0][j]
       /\ \A j \in 0..(SIZEOF_UINT64 - 1) :
            blocks'[0][j] = Xor8(blocks[0][j], length_block'[j])
       /\ \A k \in 1..(NUM_BLOCKS - 1) : blocks'[k] = blocks[k] ]_vars

C10_Witness ==
  /\ pc = "Done" /\ count = 2 * BLOCK_UNIT_SIZE + 1
  /\ length_block[6] = 1 /\ length_block[7] = 65
  /\ hash_data # ZeroUnit

(***************************************************************************)
(* Properties of the functions run on their own.                           *)
(***************************************************************************)
\* C6 as claimed: iteration i writes block p mod 8 at byte p / 8 for
\* p = (i * 11) mod 1280, inside the 8 blocks of 20 bytes.
C6_DestinationMod1280 ==
  (pc = "scatter_loop" /\ i > 0) =>
    LET p == ((i - 1) * 11) % 1280
    IN /\ dst = <<p % 8, p \div 8>>
       /\ dst[1] \in BlocksIdx /\ dst[2] \in BlockIdx

\* C6 amended: with p = (i * 11) mod 160 iteration i writes block p mod 8 at
\* byte p / 8; the slot lies inside the 8 blocks of 20 bytes, no slot is
\* written twice, and after the loop every slot was written exactly once and
\* holds the accumulator byte that was sent to it.
C6_ScatterIsBijection ==
  /\ (pc = "scatter_loop" /\ i > 0) =>
       LET p == ((i - 1) * 11) % 160
       IN /\ dst = <<p % 8, p \div 8>>
          /\ dst[1] \in BlocksIdx /\ dst[2] \in BlockIdx
          /\ blocks[dst[1]][dst[2]] = hash_data[i - 1]
  /\ \A k \in BlocksIdx : \A j \in BlockIdx : writes[k][j] <= 1
  /\ pc = "scatter_done" =>
       /\ \A k \in BlocksIdx : \A j \in BlockIdx : writes[k][j] = 1
       /\ \A x \in UnitIdx :
            blocks[((x * 11) % 160) % 8][((x * 11) % 160) \div 8] = hash_data[x]
       /\ blocks = Scatter(hash_data)

C6_Witness ==
  /\ pc = "scatter_done"
  /\ hash_data[15] = 15
  /\ blocks[5][0] = 15
  /\ \A k \in BlocksIdx : \A j \in BlockIdx : writes[k][j] = 1

\* C9 as claimed: for every shift n in 0..159 rotate_block yields the block
\* rotated left by n bits as one 160-bit value.
C9_RotatesForEveryShift ==
  pc = "returned" => result = rotate(arg.block, arg.shift)

\* C9 amended: for every shift n in 0..8 rotate_block yields the block rotated
\* left by n bits as one 160-bit value (the bits leaving a byte enter the next,
\* those leaving byte 19 enter byte 0).
C9_RotatesForShiftUpTo8 ==
  (pc = "returned" /\ arg.shift <= 8) => result = rotate(arg.block, arg.shift)

C9_Witness ==
  /\ pc = "returned" /\ arg.shift = 7
  /\ arg.block = OneByte(BYTES_PER_BLOCK - 1, 255)
  /\ result[0] = 127 /\ result[BYTES_PER_BLOCK - 1] = 128

\* the bytes of A from B's length on
RemovedBytes == {arg.a.data[x] : x \in (arg.b.n)..(arg.a.n - 1)}

\* C4 as claimed: an input and any proper prefix of it have different digests.
C4_PrefixAlwaysDiffers ==
  pc = "returned" => result.a # result.b

\* C4 amended: an input and a proper prefix of it have different digests when
\* the bytes cut off are all zero.
C4_ZeroTruncationDiffers ==
  (pc = "returned" /\ RemovedBytes = {0}) => result.a # result.b

C4_Witness ==
  /\ pc = "returned" /\ RemovedBytes = {0}
  /\ arg.b.n = BLOCK_UNIT_SIZE /\ arg.a.n = BLOCK_UNIT_SIZE + 2
  /\ arg.b.data[0] # 0
  /\ result.a # result.b

\* C5: an input and the same input with one bit flipped have different
\* digests.
C5_BitFlipChangesDigest ==
  pc = "returned" => result.a # result.b

C5_Witness ==
  /\ pc = "returned"
  /\ arg.a.n = BLOCK_UNIT_SIZE + 44
  /\ arg.b.data[43] = Xor8(arg.a.data[43], 128)
  /\ result.a # result.b

=============================================================================
